---- MODULE Spec2Model ----
(***************************************************************************)
(* Model of gpt_review/_git.py: the repository locator _find_git_dir and   *)
(* the commit pipeline _commit -> _commit_message -> _diff, _push.         *)
(*                                                                         *)
(* A path string is a record [lead, comps]: the number of leading slashes  *)
(* and the components between the slashes.  "" is [0, <<>>], "." is        *)
(* [0, <<".">>], "/" is [1, <<>>], "//a" is [2, <<"a">>].  POSIX           *)
(* semantics of os.path (posixpath) are modelled; the filesystem has no    *)
(* symbolic links.                                                         *)
(***************************************************************************)
EXTENDS Naturals, Sequences, FiniteSets, TLC

\* ------------------------------------------------------------------ bounds
\* Depth of the directory tree /a/a/.../a.
MaxDepth == 3
\* Number of components of a starting path handed to _find_git_dir.
MaxLen == 2
\* The loop iterations of one _find_git_dir call are counted up to this
\* number, after which the count starts again at 0; a call that ends makes
\* fewer iterations than this.
MaxIters == 8

\* ------------------------------------------------------- the environment
\* Names of directories that exist, and a name that never exists.
DirNames == {"a"}
MissingNames == {"b"}

RECURSIVE SeqsUpTo(_, _)
SeqsUpTo(S, n) ==
    IF n = 0 THEN {<<>>}
    ELSE LET shorter == SeqsUpTo(S, n - 1)
         IN  shorter \cup {Append(s, x) : s \in shorter, x \in S}

\* Every directory of the filesystem, as the sequence of names from the root.
Dirs == SeqsUpTo(DirNames, MaxDepth)

\* Leading-slash counts of the starting paths: relative, "/", "//", "///".
Leads == 0 .. 3

\* The starting paths a caller may hand to _find_git_dir.
StartPaths ==
    [lead : Leads, comps : SeqsUpTo(DirNames \cup MissingNames \cup {".", ".."}, MaxLen)]

\* Texts the collaborators may produce.
Diffs == {"", "diff --git a/f b/f\n+line\n"}
Messages == {"", "Add line to f"}
CommitOutputs == {"", "[main 1a2b3c4] Add line to f"}
PushOutputs == {"", "To origin\n   1a2b3c4  main -> main"}

VARIABLES
    cwd,        \* the process's working directory (a member of Dirs)
    gitDirs,    \* the directories that contain a .git entry
    pc,         \* position of the invocation
    op,         \* the operation invoked: "none", "find" or "commit"
    P,          \* _find_git_dir: the starting path of the current call
    path,       \* _find_git_dir: the local variable path
    iters,      \* _find_git_dir: loop iterations of the current call, counted
                \* modulo MaxIters + 1
    retTo,      \* _find_git_dir: the call site to return to
    found,      \* value returned by the last _find_git_dir call, or NoPath
    gpt4,       \* _commit arguments
    large,
    push,
    diff,       \* _commit_message: local diff
    message,    \* _commit: local message
    commit,     \* _commit: local commit
    calls,      \* the collaborator operations invoked so far, in order
    history,    \* the repository's commits (their messages), oldest first
    ret,        \* the mapping _commit returned, as a set of <<key, value>>
    err         \* the error that ended the invocation, or "none"

vars == <<cwd, gitDirs, pc, op, P, path, iters, retTo, found, gpt4, large, push,
          diff, message, commit, calls, history, ret, err>>

env == <<cwd, gitDirs>>
locals == <<gpt4, large, push, diff, message, commit>>

\* ------------------------------------------------------------- os.path
Str(l, c) == [lead |-> l, comps |-> c]

EmptyStr == Str(0, <<>>)
Dot == Str(0, <<".">>)
Root == Str(1, <<>>)
Pardir == Str(0, <<"..">>)
DotGit == Str(0, <<".git">>)
NoPath == Str(0, <<"<none>">>)

\* No such file or directory.
ENOENT == <<"<enoent>">>

\* posixpath.isabs
IsAbs(p) == p.lead > 0

\* posixpath.join(a, b)
Join(a, b) == IF IsAbs(b) THEN b ELSE Str(a.lead, a.comps \o b.comps)

\* os.getcwd()
Getcwd == Str(1, cwd)

\* The component loop of posixpath.normpath.
RECURSIVE NormComps(_, _, _)
NormComps(comps, initial, acc) ==
    IF comps = <<>> THEN acc
    ELSE LET c == Head(comps)
             rest == Tail(comps)
         IN  IF c \in {"", "."} THEN NormComps(rest, initial, acc)
             ELSE IF \/ c # ".."
                     \/ (initial = 0 /\ acc = <<>>)
                     \/ (acc # <<>> /\ acc[Len(acc)] = "..")
                  THEN NormComps(rest, initial, Append(acc, c))
             ELSE IF acc # <<>>
                  THEN NormComps(rest, initial, SubSeq(acc, 1, Len(acc) - 1))
             ELSE NormComps(rest, initial, acc)

\* posixpath.normpath: exactly two leading slashes are kept, three or more
\* become one.
Normpath(p) ==
    IF p = EmptyStr THEN Dot
    ELSE LET initial == IF p.lead = 0 THEN 0 ELSE IF p.lead = 2 THEN 2 ELSE 1
             comps == NormComps(p.comps, initial, <<>>)
         IN  IF initial = 0 /\ comps = <<>> THEN Dot ELSE Str(initial, comps)

\* posixpath.abspath
Abspath(p) == IF IsAbs(p) THEN Normpath(p) ELSE Normpath(Join(Getcwd, p))

\* ---------------------------------------------------------- filesystem
\* Every entry of the filesystem: the directories and the .git entries.
Entries == Dirs \cup {Append(d, ".git") : d \in gitDirs}

\* Kernel path resolution of the components comps starting at entry cur.
RECURSIVE Walk(_, _)
Walk(cur, comps) ==
    IF cur = ENOENT \/ comps = <<>> THEN cur
    ELSE LET c == Head(comps)
         IN  IF c = "." THEN Walk(cur, Tail(comps))
             ELSE IF c = ".."
                  THEN Walk(IF cur = <<>> THEN cur ELSE SubSeq(cur, 1, Len(cur) - 1),
                            Tail(comps))
             ELSE IF Append(cur, c) \in Entries
                  THEN Walk(Append(cur, c), Tail(comps))
             ELSE ENOENT

\* The entry the path string p names, or ENOENT.  Any number of leading
\* slashes starts at the root; the empty string names nothing.
Resolve(p) ==
    IF p = EmptyStr THEN ENOENT
    ELSE Walk(IF IsAbs(p) THEN <<>> ELSE cwd, p.comps)

\* os.path.exists
Exists(p) == Resolve(p) # ENOENT

\* ------------------------------------------------------- _find_git_dir
\* The loop test and the body's test of one iteration.
LoopRuns == path # Root
Hit == Exists(Join(path, DotGit))

\* A faulty parent step: it climbs two levels at once.
Parent_SkipsLevel(p) == Abspath(Join(Join(p, Pardir), Pardir))

\* The parent step of the loop body.
Parent(p) == Abspath(Join(p, Pardir))

\* Transfers control back to the call site with the returned path.
ReturnTo(site) ==
    pc' = CASE site = "api"    -> "done"
            [] site = "diff"   -> "diff"
            [] site = "commit" -> "commit"
            [] site = "push"   -> "push"

\* Entry of _find_git_dir(p) from the call site.
EnterFind(p, site) ==
    /\ pc' = "find"
    /\ P' = p
    /\ path' = p
    /\ iters' = 0
    /\ retTo' = site

\* A caller invokes _find_git_dir(p) directly.
CallFindGitDir(p) ==
    /\ pc = "idle"
    /\ op' = "find"
    /\ EnterFind(p, "api")
    /\ UNCHANGED <<env, found, locals, calls, history, ret, err>>

\* One iteration that finds the metadata directory: return path.
FindReturn ==
    /\ pc = "find"
    /\ LoopRuns
    /\ Hit
    /\ found' = path
    /\ ReturnTo(retTo)
    /\ UNCHANGED <<env, op, P, path, iters, retTo, locals, calls, history, ret, err>>

\* One iteration that does not: path becomes the parent directory.
FindParent ==
    /\ pc = "find"
    /\ LoopRuns
    /\ ~Hit
    /\ path' = Parent(path)
    /\ iters' = (iters + 1) % (MaxIters + 1)
    /\ UNCHANGED <<env, pc, op, P, retTo, found, locals, calls, history, ret, err>>

\* A faulty loop exit: "/" is returned instead of raising.
FindRaise_ReturnsRoot ==
    /\ pc = "find"
    /\ ~LoopRuns
    /\ found' = path
    /\ ReturnTo(retTo)
    /\ UNCHANGED <<env, op, P, path, iters, retTo, locals, calls, history, ret, err>>

\* The loop ends at "/": raise FileNotFoundError, which no caller catches.
FindRaise ==
    /\ pc = "find"
    /\ ~LoopRuns
    /\ pc' = "done"
    /\ err' = "FileNotFoundError"
    /\ UNCHANGED <<env, op, P, path, iters, retTo, found, locals, calls, history, ret>>

\* ------------------------------------------------------------ _commit
\* The fixed instruction of _commit_message.
Goal == "\nCreate a short, single-line, git commit message for these changes\n"

\* A faulty flag mapping: fast follows gpt4 instead of negating it.
FastArg_SameAsGpt4(g) == g

\* The keyword arguments _commit_message hands to _request_goal.
FastArg(g) == ~g
LargeArg(l) == l

\* What a collaborator call came to: the text it returned, or an error.
Returned(text) == [ok |-> TRUE, text |-> text]
Raised == [ok |-> FALSE, text |-> ""]

\* The completion request _commit_message issues for the diff d.
Request(d, g, l, res) ==
    [op |-> "request", content |-> d, goal |-> Goal, fast |-> FastArg(g),
     large |-> LargeArg(l), res |-> res]

\* Records of the version-control operations invoked.
DiffCall(dir, res) == [op |-> "diff", repo |-> dir, cached |-> TRUE, res |-> res]
CommitCall(dir, m, res) == [op |-> "commit", repo |-> dir, message |-> m, res |-> res]
PushCall(dir, res) == [op |-> "push", repo |-> dir, res |-> res]

\* The mapping _commit returns.
Response(text) == {<<"response", text>>}

\* A faulty join of the two outputs: the newline is missing.
WithPush_NoNewline(c, pushed) == c \o pushed

\* The text _commit returns when it pushed.
WithPush(c, pushed) == c \o "\n" \o pushed

\* An uncaught error ends the invocation.
Raise(e) ==
    /\ pc' = "done"
    /\ err' = e

\* The CLI invokes _commit(gpt4, large, push): _commit_message calls _diff,
\* which calls _find_git_dir() with the default path.
Commit(g, l, p) ==
    /\ pc = "idle"
    /\ op' = "commit"
    /\ gpt4' = g
    /\ large' = l
    /\ push' = p
    /\ EnterFind(Dot, "diff")
    /\ UNCHANGED <<env, found, diff, message, commit, calls, history, ret, err>>

\* A faulty _commit_message: an empty diff skips the completion request and
\* the empty message goes to the commit.
DiffReturns_SkipsEmpty(d) ==
    /\ pc = "diff"
    /\ calls' = Append(calls, DiffCall(found, Returned(d)))
    /\ diff' = d
    /\ IF d = ""
       THEN /\ message' = ""
            /\ EnterFind(Dot, "commit")
       ELSE /\ pc' = "request"
            /\ UNCHANGED <<P, path, iters, retTo, message>>
    /\ UNCHANGED <<env, op, found, gpt4, large, push, commit, history, ret, err>>

\* _diff: Repo.init(found).git.diff(None, cached=True) returns the staged diff.
DiffReturns(d) ==
    /\ pc = "diff"
    /\ calls' = Append(calls, DiffCall(found, Returned(d)))
    /\ diff' = d
    /\ pc' = "request"
    /\ UNCHANGED <<env, op, P, path, iters, retTo, found, gpt4, large, push, message,
                   commit, history, ret, err>>

\* _diff: the version-control tool fails.
DiffFails ==
    /\ pc = "diff"
    /\ calls' = Append(calls, DiffCall(found, Raised))
    /\ Raise("DiffError")
    /\ UNCHANGED <<env, op, P, path, iters, retTo, found, locals, history, ret>>

\* _commit_message: _request_goal returns m; _commit then locates the
\* repository again for the commit.
RequestReturns(m) ==
    /\ pc = "request"
    /\ calls' = Append(calls, Request(diff, gpt4, large, Returned(m)))
    /\ message' = m
    /\ EnterFind(Dot, "commit")
    /\ UNCHANGED <<env, op, found, gpt4, large, push, diff, commit, history, ret, err>>

\* A faulty _commit_message: a failed completion request is tried once more.
RequestFails_RetriesOnce ==
    /\ pc = "request"
    /\ calls' = Append(calls, Request(diff, gpt4, large, Raised))
    /\ IF \A i \in DOMAIN calls : calls[i].op # "request"
       THEN UNCHANGED <<pc, err>>
       ELSE Raise("CompletionError")
    /\ UNCHANGED <<env, op, P, path, iters, retTo, found, locals, history, ret>>

\* _commit_message: the completion facility fails.
RequestFails ==
    /\ pc = "request"
    /\ calls' = Append(calls, Request(diff, gpt4, large, Raised))
    /\ Raise("CompletionError")
    /\ UNCHANGED <<env, op, P, path, iters, retTo, found, locals, history, ret>>

\* A faulty _commit: the push flag is not consulted.
CommitReturns_AlwaysPushes(out) ==
    /\ pc = "commit"
    /\ calls' = Append(calls, CommitCall(found, message, Returned(out)))
    /\ history' = Append(history, message)
    /\ commit' = out
    /\ EnterFind(Dot, "push")
    /\ UNCHANGED <<env, op, found, gpt4, large, push, diff, message, ret, err>>

\* _commit: repo.git.commit(message=message) succeeds with output out; then
\* either _push is entered or the mapping is returned.
CommitReturns(out) ==
    /\ pc = "commit"
    /\ calls' = Append(calls, CommitCall(found, message, Returned(out)))
    /\ history' = Append(history, message)
    /\ commit' = out
    /\ IF push
       THEN /\ EnterFind(Dot, "push")
            /\ UNCHANGED ret
       ELSE /\ pc' = "done"
            /\ ret' = Response(out)
            /\ UNCHANGED <<P, path, iters, retTo>>
    /\ UNCHANGED <<env, op, found, gpt4, large, push, diff, message, err>>

\* _commit: the commit operation fails.
CommitFails ==
    /\ pc = "commit"
    /\ calls' = Append(calls, CommitCall(found, message, Raised))
    /\ Raise("CommitError")
    /\ UNCHANGED <<env, op, P, path, iters, retTo, found, locals, history, ret>>

\* _push: repo.git.push() succeeds with output out; _commit appends it and
\* returns the mapping.
PushReturns(out) ==
    /\ pc = "push"
    /\ calls' = Append(calls, PushCall(found, Returned(out)))
    /\ commit' = WithPush(commit, out)
    /\ ret' = Response(commit')
    /\ pc' = "done"
    /\ UNCHANGED <<env, op, P, path, iters, retTo, found, gpt4, large, push, diff,
                   message, history, err>>

\* A faulty _commit: a failed push is compensated by dropping the commit.
PushFails_RollsBack ==
    /\ pc = "push"
    /\ calls' = Append(calls, PushCall(found, Raised))
    /\ history' = SubSeq(history, 1, Len(history) - 1)
    /\ Raise("PushError")
    /\ UNCHANGED <<env, op, P, path, iters, retTo, found, locals, ret>>

\* _push: the push operation fails; the error leaves _commit.
PushFails ==
    /\ pc = "push"
    /\ calls' = Append(calls, PushCall(found, Raised))
    /\ Raise("PushError")
    /\ UNCHANGED <<env, op, P, path, iters, retTo, found, locals, history, ret>>

Init ==
    /\ cwd \in Dirs
    /\ gitDirs \in SUBSET Dirs
    /\ pc = "idle"
    /\ op = "none"
    /\ P = NoPath
    /\ path = NoPath
    /\ iters = 0
    /\ retTo = "api"
    /\ found = NoPath
    /\ gpt4 = FALSE
    /\ large = FALSE
    /\ push = FALSE
    /\ diff = ""
    /\ message = ""
    /\ commit = ""
    /\ calls = <<>>
    /\ history = <<>>
    /\ ret = {}
    /\ err = "none"

Next ==
    \/ \E p \in StartPaths : CallFindGitDir(p)
    \/ FindReturn
    \/ FindParent
    \/ FindRaise
    \/ \E g \in BOOLEAN, l \in BOOLEAN, p \in BOOLEAN : Commit(g, l, p)
    \/ \E d \in Diffs : DiffReturns(d)
    \/ DiffFails
    \/ \E m \in Messages : RequestReturns(m)
    \/ RequestFails
    \/ \E out \in CommitOutputs : CommitReturns(out)
    \/ CommitFails
    \/ \E out \in PushOutputs : PushReturns(out)
    \/ PushFails

Spec == Init /\ [][Next]_vars

\* The interpreter keeps executing: a step that can be taken is taken.
FairSpec == Spec /\ WF_vars(Next)

\* ===================================================================
\* Properties of the repository locator
\* ===================================================================
IsPrefix(a, b) == Len(a) <= Len(b) /\ SubSeq(b, 1, Len(a)) = a

\* The directory the starting path of the current call names, or ENOENT.
StartDir == Resolve(P)

\* The starting path names a directory.
StartIsDir == pc # "idle" /\ StartDir \in Dirs

\* The starting directory or one of its ancestors, the root included, holds
\* a .git entry.
RepoAbove(d) == \E g \in gitDirs : IsPrefix(g, d)

\* A call of _find_git_dir has returned.
HasReturned == found # NoPath

\* C1: whenever the starting path names a directory such that it or one of
\* its ancestors up to and including the filesystem root contains .git,
\* _find_git_dir does not raise the not-found error, and what it returns is
\* a directory that contains .git.
C1_ReturnsRepoWhenOneExists ==
    (StartIsDir /\ RepoAbove(StartDir)) =>
        /\ err # "FileNotFoundError"
        /\ HasReturned => Resolve(found) \in gitDirs

\* C2: whenever the starting path names a directory such that neither it nor
\* any ancestor up to the root contains .git, the call ends by raising
\* FileNotFoundError, and it returns no path.
C2_RaisesWhenNoRepo ==
    (pc = "find" /\ StartIsDir /\ ~RepoAbove(StartDir))
        ~> (pc = "done" /\ err = "FileNotFoundError" /\ ~HasReturned)

\* C10: whenever _find_git_dir returns for a starting path that names a
\* directory, the returned path names that directory or an ancestor of it
\* which contains .git, it is the starting path itself, unchanged, when the
\* starting directory contains .git, and no directory from the starting
\* directory up to, but excluding, the returned one contains .git.
C10_ReturnsNearest ==
    (StartIsDir /\ HasReturned) =>
        LET r == Resolve(found)
        IN  /\ r \in gitDirs
            /\ IsPrefix(r, StartDir)
            /\ StartDir \in gitDirs => found = P
            /\ \A d \in Dirs :
                 (IsPrefix(r, d) /\ IsPrefix(d, StartDir) /\ d # r) => d \notin gitDirs

\* Reached: a call returned an ancestor two levels above a starting
\* directory that has no .git, although a directory further up has one too.
C10_Witness ==
    /\ StartIsDir
    /\ HasReturned
    /\ Len(StartDir) = Len(Resolve(found)) + 2
    /\ \E g \in gitDirs : Len(g) < Len(Resolve(found))

\* ===================================================================
\* Properties of the commit pipeline
\* ===================================================================
\* Positions in the call log of the invocations of one operation.
CallsOf(name) == {i \in DOMAIN calls : calls[i].op = name}

\* The invocation of _commit has ended by returning.
CommitSucceeded == op = "commit" /\ pc = "done" /\ err = "none"

\* C3: every completion request _commit_message issues carries
\* fast = (not gpt4) and large = large of the invocation's arguments.
C3_FlagMapping ==
    \A i \in CallsOf("request") :
        /\ calls[i].fast = (~gpt4)
        /\ calls[i].large = large
        /\ (gpt4 = FALSE) => (calls[i].fast = TRUE)
        /\ (gpt4 = TRUE) => (calls[i].fast = FALSE)

\* Reached: a request was issued for gpt4 = TRUE and large = FALSE, and one
\* for gpt4 = FALSE and large = TRUE (in another invocation).
C3_Witness ==
    /\ CallsOf("request") # {}
    /\ gpt4 /\ ~large

\* C4: every successful invocation of _commit returns a mapping whose only
\* key is "response"; without push its value is the commit operation's
\* return value, with push it is the commit result, one newline, and the
\* push operation's result.
C4_ResponseMapping ==
    CommitSucceeded =>
        /\ {kv[1] : kv \in ret} = {"response"}
        /\ Cardinality(ret) = 1
        /\ \E i \in CallsOf("commit") :
             /\ calls[i].res.ok
             /\ IF push
                THEN \E j \in CallsOf("push") :
                        /\ calls[j].res.ok
                        /\ ret = {<<"response", calls[i].res.text \o "\n" \o calls[j].res.text>>}
                ELSE ret = {<<"response", calls[i].res.text>>}

\* Reached: _commit returned after a push, with non-empty commit and push
\* outputs.
C4_Witness ==
    /\ CommitSucceeded
    /\ push
    /\ \E i \in CallsOf("commit") : calls[i].res.text # ""
    /\ \E j \in CallsOf("push") : calls[j].res.text # ""

\* C5: when the push operation fails after the commit operation succeeded,
\* the invocation ends with the push error and returns no mapping, the
\* commit stays in the repository, and nothing is invoked after the commit
\* but that one push.
C5_NoRollbackAfterFailedPush ==
    (\E j \in CallsOf("push") : ~calls[j].res.ok) =>
        /\ pc = "done"
        /\ err = "PushError"
        /\ ret = {}
        /\ history = <<message>>
        /\ Len(calls) >= 2
        /\ calls[Len(calls)].op = "push"
        /\ calls[Len(calls) - 1].op = "commit"
        /\ calls[Len(calls) - 1].res.ok
        /\ Cardinality(CallsOf("commit")) = 1
        /\ Cardinality(CallsOf("push")) = 1

\* Reached: the push failed after a commit with a non-empty message.
C5_Witness ==
    /\ err = "PushError"
    /\ push
    /\ message # ""
    /\ Len(history) = 1

\* C6: when _commit is invoked from a working directory such that neither
\* it nor any ancestor contains .git, no collaborator operation is ever
\* invoked, nothing is committed or returned, and the invocation can only
\* end with the locator's FileNotFoundError.
C6_NoStepWithoutRepo ==
    (op = "commit" /\ ~RepoAbove(cwd)) =>
        /\ calls = <<>>
        /\ history = <<>>
        /\ ret = {}
        /\ pc \in {"find", "done"}
        /\ (pc = "done") => (err = "FileNotFoundError")
        /\ (pc = "find") => (retTo = "diff")

\* Reached: such an invocation, with all three flags set, ended with the
\* not-found error after walking up from a directory below the root.
C6_Witness ==
    /\ op = "commit"
    /\ ~RepoAbove(cwd)
    /\ cwd # <<>>
    /\ gpt4 /\ large /\ push
    /\ pc = "done"
    /\ err = "FileNotFoundError"

\* C7: when the staged diff is the empty string, the completion request is
\* still issued, once, with the empty string as content; what the facility
\* returns is the message, and the commit operation is invoked with it.
C7_EmptyDiffStillRequests ==
    \A i \in CallsOf("diff") :
        (calls[i].res.ok /\ calls[i].res.text = "") =>
            /\ (Len(calls) = i) => (pc = "request" /\ diff = "")
            /\ (Len(calls) > i) =>
                 /\ calls[i + 1].op = "request"
                 /\ calls[i + 1].content = ""
                 /\ Cardinality(CallsOf("request")) = 1
                 /\ calls[i + 1].res.ok =>
                      /\ message = calls[i + 1].res.text
                      /\ (Len(calls) = i + 1) => (pc \in {"find", "commit"} /\ retTo = "commit")
                      /\ (Len(calls) > i + 1) =>
                           /\ calls[i + 2].op = "commit"
                           /\ calls[i + 2].message = calls[i + 1].res.text
                 /\ (~calls[i + 1].res.ok) => (pc = "done" /\ err = "CompletionError")

\* Reached: the diff was empty, the facility returned a non-empty message
\* and the commit operation ran with it.
C7_Witness ==
    /\ diff = ""
    /\ CallsOf("diff") # {}
    /\ message # ""
    /\ history = <<message>>

\* C8: the push operation is invoked at most once in an invocation, only
\* when the push flag is set, and only directly after the commit operation
\* of that invocation returned successfully.
C8_PushOnlyAfterCommit ==
    /\ Cardinality(CallsOf("push")) <= 1
    /\ \A j \in CallsOf("push") :
         /\ push
         /\ j > 1
         /\ calls[j - 1].op = "commit"
         /\ calls[j - 1].res.ok
    /\ (~push) => (CallsOf("push") = {} /\ pc # "push" /\ retTo # "push")
    /\ (\E i \in CallsOf("commit") : ~calls[i].res.ok) =>
         (CallsOf("push") = {} /\ pc = "done")

\* Reached: the push flag was set, the commit failed, and the invocation
\* ended without a push.
C8_Witness ==
    /\ push
    /\ err = "CommitError"
    /\ CallsOf("push") = {}

\* C9: the completion facility is requested at most once in an invocation,
\* and when the staged-diff retrieval or the completion request fails the
\* invocation ends with that error, nothing is committed, and neither the
\* commit nor the push operation is invoked.
C9_NoRetryNoCommitOnFailure ==
    /\ Cardinality(CallsOf("request")) <= 1
    /\ Cardinality(CallsOf("diff")) <= 1
    /\ \A i \in CallsOf("diff") \cup CallsOf("request") :
         (~calls[i].res.ok) =>
            /\ i = Len(calls)
            /\ pc = "done"
            /\ err = (IF calls[i].op = "diff" THEN "DiffError" ELSE "CompletionError")
            /\ history = <<>>
            /\ ret = {}
            /\ CallsOf("commit") = {}
            /\ CallsOf("push") = {}

\* Reached: the completion request failed in an invocation with the push
\* flag set.
C9_Witness ==
    /\ err = "CompletionError"
    /\ push
    /\ CallsOf("request") # {}
====
